---- MODULE Spec2Model ----
(***************************************************************************)
(* A model of SP500_NASDAQ100_SCAN.py: the ticker universe, the cached     *)
(* price fetch, the indicator pipeline (calc_indicators), the entry signal *)
(* and exit levels (analyze_ticker) and the scan loop of main.             *)
(*                                                                         *)
(* Prices are positive integers (a price in cents, say); every derived     *)
(* value is an exact fraction num/den, or NaN (pandas' "undefined").       *)
(* Floating-point rounding is not modelled.  Positions are 1-based: the    *)
(* 0-based index i of the code is position i+1 here.                       *)
(***************************************************************************)
EXTENDS Integers, Sequences, FiniteSets, TLC

VARIABLES
    pc,          \* where the script (or the pipeline under study) stands
    sma_short,   \* st.number_input "SMA Short Window"
    sma_long,    \* st.number_input "SMA Long Window"
    aroc_weeks,  \* st.number_input "AROC/High Weeks"
    df,          \* the frame fetch_data returned (SpecInd, SpecHist)
    out,         \* the frame calc_indicators returned (SpecInd, SpecHist)
    result,      \* what analyze_ticker returned last
    sp500,       \* get_sp500_tickers(): the list, [] after a failure
    nasdaq100,   \* get_nasdaq100_tickers(): the list, [] after a failure
    tickers,     \* main: tickers
    to_scan,     \* main: to_scan
    i,           \* main: tickers of to_scan processed so far
    results,     \* main: results
    calls,       \* how often analyze_ticker was called per ticker in this run
    cache,       \* st.cache_data of fetch_data: (ticker, weeks) -> what was returned, by name
    fresh        \* the results of the same run with every fetch performed afresh

vars == <<pc, sma_short, sma_long, aroc_weeks, df, out, result, sp500, nasdaq100,
          tickers, to_scan, i, results, calls, cache, fresh>>

-----------------------------------------------------------------------------
(* Bounds of the model *)

\* longest Close series of SpecInd
MaxLen == 6
\* largest windows of SpecInd
MaxSmaShort == 2
MaxSmaLong == 3
MaxArocWeeks == 1
\* number of ticker symbols of the universe
NTickers == 2

\* bars of a full series handed to a scan
ScanBars == 30

\* Close prices of SpecInd
Prices == {80, 92, 100}

-----------------------------------------------------------------------------
(* Program constants *)

DEFAULT_SMA_SHORT == 20
DEFAULT_SMA_LONG == 50
DEFAULT_AROC_WEEKS == 20
\* the least values the sidebar's number inputs accept, and the greatest
SMA_SHORT_MIN == 5
SMA_LONG_MIN == 10
AROC_WEEKS_MIN == 4
SMA_SHORT_MAX == 100
SMA_LONG_MAX == 200
AROC_WEEKS_MAX == 52
\* approximate trading days per week (window = aroc_weeks * 5)
DAYS_PER_WEEK == 5
\* weeks fetched beyond aroc_weeks (fetch_data(ticker, weeks=aroc_weeks+10))
EXTRA_WEEKS == 10

-----------------------------------------------------------------------------
(* Values: NaN or an exact fraction with a positive denominator *)

NaN == [def |-> FALSE, num |-> 0, den |-> 1]

Rat(n, d) == [def |-> TRUE, num |-> n, den |-> d]

\* float comparisons: any comparison with NaN is False
Gt(a, b) == a.def /\ b.def /\ a.num * b.den > b.num * a.den

Ge(a, b) == a.def /\ b.def /\ a.num * b.den >= b.num * a.den

\* the same number (both defined)
RatEq(a, b) == a.def /\ b.def /\ a.num * b.den = b.num * a.den

\* a - b, a / b (b positive), k * a: NaN propagates
RSub(a, b) == IF a.def /\ b.def THEN Rat(a.num * b.den - b.num * a.den, a.den * b.den) ELSE NaN

RDiv(a, b) == IF a.def /\ b.def THEN Rat(a.num * b.den, a.den * b.num) ELSE NaN

\* a * (p/q)
RScale(a, p, q) == IF a.def THEN Rat(a.num * p, a.den * q) ELSE NaN

-----------------------------------------------------------------------------
(* Frames: what yf.download hands back, and the columns added to it *)

\* fetch_data returned None (the download raised)
NoneFrame ==
    [none |-> TRUE, n |-> 0, numeric |-> FALSE, cols |-> {},
     Close |-> <<>>, SMA_short |-> <<>>, SMA_long |-> <<>>, high_20w |-> <<>>, AROC |-> <<>>]

\* a frame of daily bars with the Close series cl
Series(cl) ==
    [none |-> FALSE, n |-> Len(cl), numeric |-> TRUE, cols |-> {"Open", "Close"},
     Close |-> cl, SMA_short |-> <<>>, SMA_long |-> <<>>, high_20w |-> <<>>, AROC |-> <<>>]

\* a frame of n rows without a Close column
NoClose(n) ==
    [none |-> FALSE, n |-> n, numeric |-> FALSE, cols |-> {"Open"},
     Close |-> <<>>, SMA_short |-> <<>>, SMA_long |-> <<>>, high_20w |-> <<>>, AROC |-> <<>>]

\* a frame of n rows whose Close column holds no numbers
NonNumeric(n) ==
    [none |-> FALSE, n |-> n, numeric |-> FALSE, cols |-> {"Open", "Close"},
     Close |-> <<>>, SMA_short |-> <<>>, SMA_long |-> <<>>, high_20w |-> <<>>, AROC |-> <<>>]

DerivedCols == {"SMA_short", "SMA_long", "20w_high", "AROC"}

\* DataFrame.empty: no rows or no columns
Empty(f) == f.n = 0 \/ f.cols = {}

-----------------------------------------------------------------------------
(* calc_indicators *)

\* Series.rolling(window=w).mean(): pandas' sliding accumulator.  At each bar
\* the bar is added, the bar that left the window is removed, and the mean is
\* defined once the window holds min_periods (= w) observations.
roll_step(x, w, idx, st) ==
    LET leaving == idx > w
        s == IF leaving THEN st.sum + x[idx] - x[idx - w] ELSE st.sum + x[idx]
        k == IF leaving THEN st.nobs ELSE st.nobs + 1
    IN  [sum |-> s, nobs |-> k, acc |-> Append(st.acc, IF k >= w THEN Rat(s, k) ELSE NaN)]

\* the bars lo..hi taken in order, starting from st, which holds the bars
\* before lo (the range is halved only to keep the evaluation shallow: every
\* bar is still taken after the one before it)
RECURSIVE roll_mean(_, _, _, _, _)
roll_mean(x, w, lo, hi, st) ==
    IF Len(st.acc) >= hi \/ lo > hi THEN st
    ELSE IF lo = hi THEN roll_step(x, w, lo, st)
    ELSE roll_mean(x, w, (lo + hi) \div 2 + 1, hi, roll_mean(x, w, lo, (lo + hi) \div 2, st))

NoBars == [sum |-> 0, nobs |-> 0, acc |-> <<>>]

\* a plausible slip: the window one bar too wide
RollingMean_wide(x, w) == roll_mean(x, w + 1, 1, Len(x), NoBars).acc

RollingMean(x, w) == roll_mean(x, w, 1, Len(x), NoBars).acc

SetMax(S) == CHOOSE m \in S : \A y \in S : y <= m

\* Series.rolling(window=w).max()
RollingMax(x, w) ==
    [idx \in 1..Len(x) |->
        IF idx >= w THEN Rat(SetMax({x[j] : j \in (idx - w + 1)..idx}), 1) ELSE NaN]

\* a plausible slip: the lag one bar short
Shift_short(x, k) == [idx \in 1..Len(x) |-> IF idx <= k - 1 THEN NaN ELSE Rat(x[idx - k + 1], 1)]

\* Series.shift(k): every value moves k rows down, the first k rows are NaN
Shift(x, k) == [idx \in 1..Len(x) |-> IF idx <= k THEN NaN ELSE Rat(x[idx - k], 1)]

\* ((Close - Close.shift(window)) / Close.shift(window)) * 100
Aroc(x, window) ==
    LET sh == Shift(x, window)
    IN  [idx \in 1..Len(x) |-> RScale(RDiv(RSub(Rat(x[idx], 1), sh[idx]), sh[idx]), 100, 1)]

\* aroc_weeks * 5
Window(weeks) == weeks * DAYS_PER_WEEK

\* The try block fails on its first statement when Close is missing or holds no
\* numbers; the except returns the frame as it is.
calc_indicators(f, s, l, w) ==
    IF "Close" \notin f.cols \/ ~f.numeric THEN f
    ELSE [f EXCEPT !.cols = @ \cup DerivedCols,
                   !.SMA_short = RollingMean(f.Close, s),
                   !.SMA_long = RollingMean(f.Close, l),
                   !.high_20w = RollingMax(f.Close, Window(w)),
                   !.AROC = Aroc(f.Close, Window(w))]

-----------------------------------------------------------------------------
(* analyze_ticker *)

NoRec ==
    [some |-> FALSE, Ticker |-> 0, Date |-> 0, Close |-> NaN, SMA_short |-> NaN,
     SMA_long |-> NaN, high_20w |-> NaN, AROC |-> NaN, Entry |-> NaN, Sell |-> NaN]

\* df is None or df.empty
Skipped(f) == f.none \/ Empty(f)

\* a plausible slip: the trend condition SMA_short > SMA_long left out
entry_signal_no_trend(close, smaS, smaL, high, aroc) ==
    /\ Gt(close, smaS)
    /\ Ge(close, RScale(high, 95, 100))
    /\ Gt(aroc, Rat(5, 1))

\* the combined entry logic on the latest row
entry_signal(close, smaS, smaL, high, aroc) ==
    /\ Gt(close, smaS)
    /\ Gt(smaS, smaL)
    /\ Ge(close, RScale(high, 95, 100))
    /\ Gt(aroc, Rat(5, 1))

\* a plausible slip: the stop 7% above the entry instead of below
trailing_stop_exit_above(entry_price) == RScale(entry_price, 107, 100)

\* entry_price * 0.93
trailing_stop_exit(entry_price) == RScale(entry_price, 93, 100)

\* Python's max(a, b): b only when b > a
PyMax(a, b) == IF Gt(b, a) THEN b ELSE a

\* a plausible slip: min for max
sell_recommendation_min(sma_exit, entry_price) ==
    IF Gt(sma_exit, trailing_stop_exit(entry_price)) THEN trailing_stop_exit(entry_price) ELSE sma_exit

sell_recommendation(sma_exit, entry_price) == PyMax(sma_exit, trailing_stop_exit(entry_price))

\* What the call returns: raised (an exception left the function), warned (an
\* exception was caught and reported) and rec (the record, or NoRec for None).
analyze_ticker(ticker, fetched, s, l, w) ==
    IF Skipped(fetched) THEN [raised |-> FALSE, warned |-> FALSE, rec |-> NoRec]
    ELSE LET f == calc_indicators(fetched, s, l, w)
         IN  IF f.none \/ f.n = 0
             THEN \* None has no columns; iloc[-1] of no rows: outside the try
                  [raised |-> TRUE, warned |-> FALSE, rec |-> NoRec]
             ELSE IF ~(({"Close"} \cup DerivedCols) \subseteq f.cols)
             THEN \* latest[...] raises KeyError inside the try
                  [raised |-> FALSE, warned |-> TRUE, rec |-> NoRec]
             ELSE LET close == Rat(f.Close[f.n], 1)
                      smaS == f.SMA_short[f.n]
                      smaL == f.SMA_long[f.n]
                      high == f.high_20w[f.n]
                      aroc == f.AROC[f.n]
                  IN  IF entry_signal(close, smaS, smaL, high, aroc)
                      THEN [raised |-> FALSE, warned |-> FALSE,
                            rec |-> [some |-> TRUE, Ticker |-> ticker, Date |-> f.n,
                                     Close |-> close, SMA_short |-> smaS, SMA_long |-> smaL,
                                     high_20w |-> high, AROC |-> aroc, Entry |-> close,
                                     Sell |-> sell_recommendation(smaS, close)]]
                      ELSE [raised |-> FALSE, warned |-> FALSE, rec |-> NoRec]

-----------------------------------------------------------------------------
(* The pipeline on one frame: calc_indicators, then analyze_ticker *)

\* all Close series of length 1..MaxLen over Prices
CloseSeries == UNION {[1..n -> Prices] : n \in 1..MaxLen}

Frames ==
    {NoneFrame, Series(<<>>), NoClose(MaxLen), NonNumeric(MaxLen)}
        \cup {Series(cl) : cl \in CloseSeries}

\* ticker symbols, in their sort order
Tickers == 1..NTickers

\* fetch_data(ticker, weeks=aroc_weeks+10)
Lookback(w) == w + EXTRA_WEEKS

\* the windows a scan runs with
ScanConfigs == {[s |-> SMA_SHORT_MIN, l |-> SMA_LONG_MIN, w |-> AROC_WEEKS_MIN]}

CacheKeys == Tickers \X {Lookback(c.w) : c \in ScanConfigs}

NoCalls == [t \in Tickers |-> 0]

EmptyCache == [k \in CacheKeys |-> "absent"]

NoScan ==
    /\ sp500 = <<>> /\ nasdaq100 = <<>> /\ tickers = <<>> /\ to_scan = <<>>
    /\ i = 0 /\ results = <<>> /\ fresh = <<>>
    /\ calls = NoCalls
    /\ cache = EmptyCache

scanVars == <<sp500, nasdaq100, tickers, to_scan, i, results, calls, cache, fresh>>

paramVars == <<sma_short, sma_long, aroc_weeks>>

InitInd ==
    /\ pc = "fetched"
    /\ sma_short \in 1..MaxSmaShort
    /\ sma_long \in 2..MaxSmaLong
    /\ aroc_weeks \in 1..MaxArocWeeks
    /\ df \in Frames
    /\ out = NoneFrame
    /\ result = NoRec
    /\ NoScan

\* calc_indicators on a frame that is not None
CalcIndicators ==
    /\ pc = "fetched"
    /\ ~df.none
    /\ out' = calc_indicators(df, sma_short, sma_long, aroc_weeks)
    /\ pc' = "calculated"
    /\ UNCHANGED <<paramVars, df, result, scanVars>>

\* analyze_ticker on the frame fetch_data returned
AnalyzeTicker ==
    /\ pc \in {"fetched", "calculated"}
    /\ LET r == analyze_ticker(1, df, sma_short, sma_long, aroc_weeks)
       IN  /\ result' = r.rec
           /\ pc' = IF r.raised THEN "raised" ELSE "analyzed"
    /\ UNCHANGED <<paramVars, df, out, scanVars>>

NextInd == CalcIndicators \/ AnalyzeTicker

SpecInd == InitInd /\ [][NextInd]_vars

-----------------------------------------------------------------------------
(* The script: get_all_tickers, the sidebar, the scan loop *)

\* What a download can hand back, by name
Outcomes == {"raise", "empty", "malformed", "short", "flat", "rising"}

Feed(o) ==
    CASE o = "raise" -> NoneFrame
      [] o = "empty" -> Series(<<>>)
      [] o = "malformed" -> NoClose(ScanBars)
      [] o = "short" -> Series([k \in 1..SMA_LONG_MIN |-> 100 + k])
      [] o = "flat" -> Series([k \in 1..ScanBars |-> 50])
      [] o = "rising" -> Series([k \in 1..ScanBars |-> 90 + k])

\* a list of the tickers of S, in descending order (unsorted for get_all_tickers)
RECURSIVE Descending(_)
Descending(S) ==
    IF S = {} THEN <<>>
    ELSE LET m == SetMax(S) IN <<m>> \o Descending(S \ {m})

\* what a source can return: [] (a failure, or no rows) or a list of tickers
SourceLists == {Descending(S) : S \in SUBSET Tickers}

Range(q) == {q[k] : k \in 1..Len(q)}

\* list.sort() of the elements of S
RECURSIVE Sorted(_)
Sorted(S) ==
    IF S = {} THEN <<>>
    ELSE LET m == SetMax(S) IN Append(Sorted(S \ {m}), m)

\* combined = list(set(sp500 + nasdaq100)); combined.sort()
get_all_tickers(a, b) == Sorted(Range(a \o b))

\* a plausible slip: a test that an empty list never meets
NotTickers_is_none(tk) == FALSE

\* if not tickers
NotTickers(tk) == Len(tk) = 0

\* st.multiselect: any choice of distinct options, in the order chosen
Selections(options) ==
    {q \in UNION {[1..n -> Range(options)] : n \in 0..Len(options)} :
        \A j, k \in 1..Len(q) : j # k => q[j] # q[k]}

\* a plausible slip: the new record put in front
Collect_front(rs, r) == IF r.some THEN <<r>> \o rs ELSE rs

\* if result: results.append(result)
Collect(rs, r) == IF r.some THEN Append(rs, r) ELSE rs

\* a plausible slip: no try around the download, whose exception leaves the call
fetch_data_uncaught(c, ticker, weeks, downloaded) ==
    IF c[<<ticker, weeks>>] # "absent"
    THEN [raised |-> FALSE, ret |-> c[<<ticker, weeks>>], cache |-> c]
    ELSE IF downloaded = "raise"
    THEN [raised |-> TRUE, ret |-> downloaded, cache |-> c]
    ELSE [raised |-> FALSE, ret |-> downloaded,
          cache |-> [c EXCEPT ![<<ticker, weeks>>] = downloaded]]

\* st.cache_data: a value stored under (ticker, weeks) is returned as it is,
\* whenever it was stored; otherwise the download runs, its exception becomes
\* None, and what is returned, None included, is stored.
fetch_data(c, ticker, weeks, downloaded) ==
    IF c[<<ticker, weeks>>] # "absent"
    THEN [raised |-> FALSE, ret |-> c[<<ticker, weeks>>], cache |-> c]
    ELSE [raised |-> FALSE, ret |-> downloaded,
          cache |-> [c EXCEPT ![<<ticker, weeks>>] = downloaded]]

Init ==
    /\ pc = "start"
    /\ sma_short = DEFAULT_SMA_SHORT
    /\ sma_long = DEFAULT_SMA_LONG
    /\ aroc_weeks = DEFAULT_AROC_WEEKS
    /\ df = NoneFrame /\ out = NoneFrame /\ result = NoRec
    /\ NoScan

\* main, lines 108-110: the universe; an empty one stops the script
GetAllTickers(lists) ==
    /\ pc = "start"
    /\ \E a \in lists, b \in lists :
        /\ sp500' = a
        /\ nasdaq100' = b
        /\ tickers' = get_all_tickers(a, b)
        /\ pc' = IF NotTickers(get_all_tickers(a, b)) THEN "stopped" ELSE "sidebar"
    /\ UNCHANGED <<paramVars, df, out, result, to_scan, i, results, calls, cache, fresh>>

\* main, lines 112-129: the sidebar's widgets, and the start of a scan when the
\* button was pressed
Sidebar ==
    /\ pc = "sidebar"
    /\ \E selected_tickers \in Selections(tickers), run_scan \in BOOLEAN, c \in ScanConfigs :
        /\ sma_short' = c.s
        /\ sma_long' = c.l
        /\ aroc_weeks' = c.w
        /\ IF run_scan
           THEN /\ to_scan' = IF selected_tickers # <<>> THEN selected_tickers ELSE tickers
                /\ pc' = "loop"
           ELSE /\ to_scan' = <<>>
                /\ pc' = "idle"
    /\ i' = 0
    /\ results' = <<>>
    /\ fresh' = <<>>
    /\ calls' = NoCalls
    /\ UNCHANGED <<df, out, result, sp500, nasdaq100, tickers, cache>>

\* main, lines 130-135: one pass of the loop body.  `downloaded` is what
\* yf.download would hand back now; fresh follows the same run with that value
\* used on every pass.
ScanStep(feeds) ==
    /\ pc = "loop"
    /\ i < Len(to_scan)
    /\ \E downloaded \in feeds :
        LET ticker == to_scan[i + 1]
            got == fetch_data(cache, ticker, Lookback(aroc_weeks), downloaded)
            r == analyze_ticker(ticker, Feed(got.ret), sma_short, sma_long, aroc_weeks)
            f == IF got.ret = downloaded THEN r
                 ELSE analyze_ticker(ticker, Feed(downloaded), sma_short, sma_long, aroc_weeks)
        IN  /\ calls' = [calls EXCEPT ![ticker] = @ + 1]
            /\ cache' = got.cache
            /\ IF got.raised \/ r.raised
               THEN /\ pc' = "crashed"
                    /\ UNCHANGED <<i, results, fresh, result>>
               ELSE /\ pc' = "loop"
                    /\ result' = r.rec
                    /\ results' = Collect(results, r.rec)
                    /\ fresh' = Collect(fresh, f.rec)
                    /\ i' = i + 1
    /\ UNCHANGED <<paramVars, df, out, sp500, nasdaq100, tickers, to_scan>>

\* main, lines 136-145: the loop is over, the results are shown
Finish ==
    /\ pc = "loop"
    /\ i = Len(to_scan)
    /\ pc' = "done"
    /\ UNCHANGED <<paramVars, df, out, result, scanVars>>

Next ==
    \/ GetAllTickers(SourceLists)
    \/ Sidebar
    \/ ScanStep(Outcomes)
    \/ Finish

Spec == Init /\ [][Next]_vars

-----------------------------------------------------------------------------
(* The script run again and again in one server process: the caches stay *)

\* what a download can hand back in the study of the cache
CacheOutcomes == {"raise", "flat", "rising"}

\* Streamlit runs main again on the next interaction; the cached source lists
\* and the cached frames are those of the runs before
Rerun ==
    /\ pc \in {"done", "idle", "stopped"}
    /\ tickers' = get_all_tickers(sp500, nasdaq100)
    /\ pc' = IF NotTickers(get_all_tickers(sp500, nasdaq100)) THEN "stopped" ELSE "sidebar"
    /\ UNCHANGED <<paramVars, df, out, result, sp500, nasdaq100, to_scan, i, results,
                   calls, cache, fresh>>

NextCache ==
    \/ GetAllTickers(SourceLists)
    \/ Sidebar
    \/ ScanStep(CacheOutcomes)
    \/ Finish
    \/ Rerun

SpecCache == Init /\ [][NextCache]_vars

-----------------------------------------------------------------------------
(* The lookback of analyze_ticker against the windows the sidebar accepts *)

SmaShortChoices == {SMA_SHORT_MIN, DEFAULT_SMA_SHORT, 70, 71, SMA_SHORT_MAX}

SmaLongChoices == {SMA_LONG_MIN, DEFAULT_SMA_LONG, 150, 151, SMA_LONG_MAX}

ArocWeeksChoices == {AROC_WEEKS_MIN, DEFAULT_AROC_WEEKS, AROC_WEEKS_MAX}

InitHist ==
    /\ pc = "settings"
    /\ sma_short \in SmaShortChoices
    /\ sma_long \in SmaLongChoices
    /\ aroc_weeks \in ArocWeeksChoices
    /\ df = NoneFrame /\ out = NoneFrame /\ result = NoRec
    /\ NoScan

\* fetch_data(ticker, weeks=aroc_weeks+10) handing back one bar for each of the
\* 5 trading days of every week of the lookback
FetchFullHistory ==
    /\ pc = "settings"
    /\ df' = Series([k \in 1..(Lookback(aroc_weeks) * DAYS_PER_WEEK) |-> 100 + k])
    /\ pc' = "fetched"
    /\ UNCHANGED <<paramVars, out, result, scanVars>>

NextHist == FetchFullHistory \/ CalcIndicators

SpecHist == InitHist /\ [][NextHist]_vars

-----------------------------------------------------------------------------
(* Properties of the pipeline, stated on the raw Close series *)

RECURSIVE SumRange(_, _, _)
SumRange(x, a, b) == IF a > b THEN 0 ELSE x[b] + SumRange(x, a, b - 1)

\* the arithmetic mean of Close over the w bars ending at position idx
MeanAt(x, idx, w) == Rat(SumRange(x, idx - w + 1, idx), w)

Calculated == pc = "calculated" /\ DerivedCols \subseteq out.cols

TrailingMean(col, x, w) ==
    \A idx \in 1..Len(x) :
        /\ idx < w => ~col[idx].def
        /\ idx >= w => RatEq(col[idx], MeanAt(x, idx, w))

\* C6: for every Close series and window w >= 1, SMA_short and SMA_long are
\* undefined at every index i < w-1 (position < w), so at every bar of a series
\* shorter than w, and at every later index equal the arithmetic mean of Close
\* over indices [i-w+1, i].
C6_SmaIsTrailingMean ==
    Calculated =>
        /\ Len(out.SMA_short) = df.n /\ Len(out.SMA_long) = df.n
        /\ TrailingMean(out.SMA_short, df.Close, sma_short)
        /\ TrailingMean(out.SMA_long, df.Close, sma_long)

\* a series long enough for the short window and too short for the long one,
\* whose latest short average lies strictly between its first and last Close
C6_Witness ==
    /\ Calculated
    /\ sma_short <= df.n /\ df.n < sma_long
    /\ out.SMA_short[df.n].def /\ ~out.SMA_long[df.n].def
    /\ Gt(out.SMA_short[df.n], Rat(df.Close[1], 1))
    /\ Gt(Rat(df.Close[df.n], 1), out.SMA_short[df.n])

\* C7: with window = aroc_weeks * 5, AROC is undefined at every index i < window
\* (position <= window) and at every later index equals
\* (close[i] - close[i-window]) / close[i-window] * 100.
C7_ArocIsLaggedChange ==
    Calculated =>
        LET window == aroc_weeks * 5
            x == df.Close
        IN  /\ Len(out.AROC) = df.n
            /\ \A idx \in 1..df.n :
                /\ idx <= window => ~out.AROC[idx].def
                /\ idx > window =>
                      RatEq(out.AROC[idx], Rat((x[idx] - x[idx - window]) * 100, x[idx - window]))

\* a series with a bar exactly `window` bars before the latest, and a rise of 25%
C7_Witness ==
    /\ Calculated
    /\ df.n = aroc_weeks * 5 + 1
    /\ RatEq(out.AROC[df.n], Rat(25, 1))
    /\ df.Close[2] # df.Close[1]

\* the four derived values of the latest bar are defined, by the data model's
\* rule (so many bars exist), and the four conditions hold on them
DirectSignal(f, s, l, w) ==
    /\ ~f.none /\ f.numeric /\ "Close" \in f.cols
    /\ LET x == f.Close
           n == f.n
           window == w * 5
       IN  /\ n >= s /\ n >= l /\ n >= window /\ n > window
           /\ x[n] * s > SumRange(x, n - s + 1, n)
           /\ SumRange(x, n - s + 1, n) * l > SumRange(x, n - l + 1, n) * s
           /\ 100 * x[n] >= 95 * SetMax({x[j] : j \in (n - window + 1)..n})
           /\ (x[n] - x[n - window]) * 100 > 5 * x[n - window]

\* C2: analyze_ticker returns a record if and only if the four derived values
\* of the latest bar are defined and Close > sma_short, sma_short > sma_long,
\* Close >= 0.95 * rolling_high and aroc > 5 hold; otherwise it returns nothing,
\* and it never raises.
C2_RecordIffSignal ==
    /\ pc # "raised"
    /\ pc = "analyzed" => (result.some <=> DirectSignal(df, sma_short, sma_long, aroc_weeks))

\* the signal fires with the long average defined on the latest bar only
C2_Witness ==
    /\ pc = "analyzed" /\ result.some
    /\ result.SMA_long.def /\ result.high_20w.def /\ result.AROC.def
    /\ df.n = aroc_weeks * 5 + 1

\* C3: whenever the signal fires, Entry Recommendation is the latest Close and
\* Sell Recommendation is max(sma_short, 0.93 * Close) of the latest bar.
C3_EntryAndSell ==
    (pc = "analyzed" /\ result.some) =>
        LET c == df.Close[df.n]
            mean == MeanAt(df.Close, df.n, sma_short)
            stop == Rat(93 * c, 100)
        IN  /\ RatEq(result.Entry, Rat(c, 1))
            /\ RatEq(result.Sell, IF Ge(mean, stop) THEN mean ELSE stop)
            /\ Ge(result.Sell, mean) /\ Ge(result.Sell, stop)

\* the spec's case: Close = 100 and sma_short = 90 give 93
C3_Witness ==
    /\ pc = "analyzed" /\ result.some
    /\ RatEq(result.Close, Rat(100, 1))
    /\ RatEq(result.SMA_short, Rat(90, 1))
    /\ RatEq(result.Sell, Rat(93, 1))

\* the spec's other case: Close = 100 and sma_short = 96 give 96
C3_WitnessSma ==
    /\ pc = "analyzed" /\ result.some
    /\ RatEq(result.Close, Rat(100, 1))
    /\ RatEq(result.SMA_short, Rat(96, 1))
    /\ RatEq(result.Sell, Rat(96, 1))

\* C10: every record returned for a latest bar with Close > 0 has
\* 0.93 * Entry <= Sell < Entry.
C10_SellBelowEntry ==
    (pc = "analyzed" /\ result.some /\ Gt(result.Close, Rat(0, 1))) =>
        /\ Ge(result.Sell, RScale(result.Entry, 93, 100))
        /\ Gt(result.Entry, result.Sell)

\* a record whose exit level is the short average, above the 7% stop
C10_Witness ==
    /\ pc = "analyzed" /\ result.some /\ Gt(result.Close, Rat(0, 1))
    /\ Gt(result.Sell, RScale(result.Entry, 93, 100))
    /\ RatEq(result.Sell, result.SMA_short)

-----------------------------------------------------------------------------
(* Properties of the scan *)

\* the outcome fetch_data returned for a ticker of this run
Fetched(t) == cache[<<t, Lookback(aroc_weeks)>>]

Scanning == pc \in {"loop", "done"}

\* the tickers of the first k places of to_scan whose own series gives a
\* signal, in the order of to_scan
RECURSIVE Matching(_)
Matching(k) ==
    IF k = 0 THEN <<>>
    ELSE IF DirectSignal(Feed(Fetched(to_scan[k])), sma_short, sma_long, aroc_weeks)
         THEN Append(Matching(k - 1), to_scan[k])
         ELSE Matching(k - 1)

TickersOf(rs) == [k \in 1..Len(rs) |-> rs[k].Ticker]

\* C1: whatever each ticker's outcome (the fetch raises, the series is empty,
\* malformed, too short, gives a signal or not), the loop calls analyze_ticker
\* once on every ticker of to_scan and finishes; no exception leaves it; a
\* failing ticker contributes nothing, and every other ticker contributes what
\* its own series gives.
C1_EveryTickerOnce ==
    /\ pc # "crashed"
    /\ Scanning =>
        /\ i <= Len(to_scan)
        /\ pc = "done" => i = Len(to_scan)
        /\ \A t \in Tickers :
              calls[t] = Cardinality({k \in 1..i : to_scan[k] = t})
        /\ TickersOf(results) = Matching(i)
        /\ \A k \in 1..Len(results) :
              LET t == results[k].Ticker
                  x == Feed(Fetched(t)).Close
              IN  /\ RatEq(results[k].Entry, Rat(x[Len(x)], 1))
                  /\ results[k].Date = Len(x)
        /\ \A k \in 1..i :
              Fetched(to_scan[k]) \in {"raise", "empty", "malformed", "short"}
                  => \A j \in 1..Len(results) : results[j].Ticker # to_scan[k]

\* a finished scan whose first ticker's fetch raised and whose second ticker
\* gave a signal
C1_Witness ==
    /\ pc = "done"
    /\ Len(to_scan) = 2
    /\ Fetched(to_scan[1]) = "raise"
    /\ Fetched(to_scan[2]) = "rising"
    /\ Len(results) = 1

\* C4: when both sources yield no tickers, get_all_tickers returns an empty
\* list and main stops before the scan loop: nothing is fetched or analysed
\* and no result collection is produced.
C4_EmptyUniverseHalts ==
    (pc # "start" /\ sp500 = <<>> /\ nasdaq100 = <<>>) =>
        /\ tickers = <<>>
        /\ pc = "stopped"
        /\ calls = NoCalls
        /\ cache = EmptyCache
        /\ results = <<>> /\ to_scan = <<>> /\ i = 0

C4_Witness == pc = "stopped" /\ sp500 = <<>> /\ nasdaq100 = <<>>

\* the place of ticker t in to_scan
Place(t) == CHOOSE k \in 1..Len(to_scan) : to_scan[k] = t

\* rs lists tickers of the first k places of to_scan, each at most once, in the
\* order of to_scan
InInputOrder(rs, k) ==
    /\ \A j \in 1..Len(rs) : \E m \in 1..k : to_scan[m] = rs[j].Ticker
    /\ \A j, m \in 1..Len(rs) : j < m => Place(rs[j].Ticker) < Place(rs[m].Ticker)

\* C5: at every point of a scan the result collection is a subsequence of the
\* tickers processed so far, in input order; results only grow by appending at
\* the end, and each input ticker contributes at most one record.
C5_ResultsInInputOrder ==
    /\ [](Scanning => InInputOrder(results, i))
    /\ [][(pc = "loop" /\ pc' = "loop") =>
            \/ results' = results
            \/ /\ Len(results') = Len(results) + 1
               /\ SubSeq(results', 1, Len(results)) = results
               /\ results'[Len(results')].Ticker = to_scan[i + 1]]_vars

\* a finished scan of two tickers chosen against the sort order, both matching
C5_Witness ==
    /\ pc = "done"
    /\ Len(results) = 2
    /\ to_scan[1] > to_scan[2]
    /\ results[1].Ticker = to_scan[1]
    /\ results[2].Ticker = to_scan[2]

\* C9: the cache of fetch_data does not alter results: every run returns what
\* the same run would return with every fetch performed afresh.
C9_CacheTransparent == pc = "done" => results = fresh

\* all four derived values of the latest bar are defined
LatestDefined(f) ==
    /\ DerivedCols \subseteq f.cols
    /\ f.n > 0
    /\ f.SMA_short[f.n].def /\ f.SMA_long[f.n].def
    /\ f.high_20w[f.n].def /\ f.AROC[f.n].def

\* C8: for every sma_short in [5,100], sma_long in [10,200] and aroc_weeks in
\* [4,52], a series of 5 bars per week of the lookback of aroc_weeks + 10 weeks
\* has sma_short, sma_long, rolling_high and aroc defined on its latest bar.
C8_EnoughHistory == pc = "calculated" => LatestDefined(out)

====
